---- MODULE Spec2Model ----
(***************************************************************************)
(* Transportation-mode detection algorithms and confusion-matrix metrics   *)
(* of the dashboard (src/js/firestore-browser.js, lines 477-863).          *)
(*                                                                         *)
(* Number representation.  TLC has integers only, so every quantity is an  *)
(* integer count of a fixed unit:                                          *)
(*   speedKmh    km/h                                                      *)
(*   speed       0.1 m/s   (speedThreshold likewise; the default 0.5 m/s   *)
(*               is 5)                                                     *)
(*   timestamp   milliseconds, multiples of 1000 (the generators of the    *)
(*               test suite step by whole seconds)                         *)
(*   latitude    0.001 degree; all samples lie on one meridian, where the  *)
(*               haversine formula reduces to R * |dLat|                   *)
(*   distance    millimetres                                               *)
(*   heading     pi/90 radian (2 degrees)                                  *)
(* A JavaScript number that may be absent is a sequence of length <= 1:    *)
(* <<v>> is the number v, << >> is undefined (a missing field) or NaN (the *)
(* result of arithmetic on undefined).  Floating-point rounding is not     *)
(* modelled: arithmetic is exact.                                          *)
(***************************************************************************)
EXTENDS Integers, Sequences, FiniteSets, TLC

VARIABLES
    points,       \* the trajectory handed to the algorithms
    original,     \* the trajectory before a speed spike was injected
    spiked,       \* index of the sample overwritten by the spike, 0 if none
    threshold,    \* speedThreshold argument of the last findStops call
    predictions,  \* the list of {actual, predicted} pairs
    called,       \* name of the function called last
    label,        \* label returned by the last classifier call
    stops,        \* array returned by the last findStops call
    changes,      \* array returned by the last calculateHeadingChanges call
    matrix,       \* object returned by the last buildConfusionMatrix call
    threw,        \* TRUE iff the last call ended in an exception
    percent,      \* argument p of the last percentile call
    value,        \* number returned by the last percentile call
    className,    \* argument className of the last precision or recall call
    metric,       \* fraction returned by the last metric call
    callerArray,  \* the caller's array of speeds, handed to percentile
    kept,         \* an earlier list of pairs and the matrix returned for it
    firstLabel,   \* per classifier, the label of its first call and whether it was repeated
    currentTableData,  \* engagement-analytics.js: the rows last rendered
    currentSort,       \* engagement-analytics.js: sort column and direction
    tbody,             \* the rows of the table body, as cell texts
    userData,          \* the rows the page handed to the table
    userIds,           \* argument userIds of the last filterTableByUser call
    tableId,           \* argument tableId of the last call on a table
    now,                  \* the clock, in milliseconds
    filterDebounceTimer,  \* engagement-analytics.js: the pending timeout, if any
    isLoading,            \* the filter buttons show the loading state
    urlParams,            \* startDate and endDate of the page URL
    alerted,              \* the last applyDateRangeFilter call raised the alert
    lastCallAt,           \* time of the last applyDateRangeFilter call
    lastValid,            \* the last call of the burst that passed validation
    burstUpdates,         \* onUpdate invocations caused by the current burst
    lastUpdate,           \* time and arguments of the last onUpdate invocation
    currentStoryId,       \* story-prompts.js: the story the form is saved under
    functionsInstance,    \* story-prompts.js: the Firebase Functions instance
    listing,              \* the refreshStoriesList call of the tab is pending
    pendingLoads,         \* the getStoryPrompts requests without a response
    loadCalls,            \* number of getStoryPrompts requests made so far
    storyForm,            \* the fields of the story form
    storyMessage,         \* the stories message area
    sent                  \* the request of the last saveStoryPrompts call

vars == <<points, original, spiked, threshold, predictions, called, label,
          stops, changes, matrix, threw, percent, value, className, metric,
          callerArray, kept, firstLabel,
          currentTableData, currentSort, tbody, userData, userIds, tableId,
          now, filterDebounceTimer, isLoading, urlParams, alerted, lastCallAt,
          lastValid, burstUpdates, lastUpdate,
          currentStoryId, functionsInstance, listing, pendingLoads, loadCalls,
          storyForm, storyMessage, sent>>

\* The arguments and results of the percentile and metric calls
scalars == <<percent, value, className, metric>>

\* What the trajectory functions and the matrix functions never touch
\* The user breakdown table of the engagement dashboard
tableState == <<currentTableData, currentSort, tbody, userData, userIds, tableId>>

\* The date range filter of the engagement dashboard and its observer
filterState ==
    <<now, filterDebounceTimer, isLoading, urlParams, alerted, lastCallAt,
      lastValid, burstUpdates, lastUpdate>>

\* The stories tab and the backend requests it has in flight
storyState ==
    <<currentStoryId, functionsInstance, listing, pendingLoads, loadCalls,
      storyForm, storyMessage, sent>>

\* The dashboard pages, which the motion algorithms never touch
page == <<tableState, filterState, storyState>>

rest == <<callerArray, kept, firstLabel, page>>

(***************************************************************************)
(* Bounds of the model                                                     *)
(***************************************************************************)
MaxLen == 2        \* longest trajectory over the full speed alphabet
MaxLong == 21      \* longest trajectory of speeds within one bucket
MaxStopLen == 3    \* longest trajectory over the stop-detection alphabet
MaxHeadLen == 3    \* longest trajectory over the heading alphabet
MaxStraight == 37  \* longest straight trajectory that ends in one turn
MaxPairs == 2      \* longest list of {actual, predicted} pairs
MaxMetricPairs == 2  \* longest list of pairs handed to the metrics
MaxNegativeLen == 3  \* longest trajectory over the negative-speed alphabet
MaxFrameLen == 2     \* longest trajectory handed to every function in turn
MaxSessionLen == 2   \* longest trajectory of a session of repeated calls
MaxTicks == 8        \* length of the observed time, in ticks of the clock
MaxRows == 2         \* most rows handed to the user breakdown table
MaxFreshPairs == 1   \* longest list of pairs when the caller holds two matrices
MaxLoads == 3        \* most getStoryPrompts requests of one visit of the stories tab

(***************************************************************************)
(* JavaScript values                                                       *)
(***************************************************************************)
undefined == << >>
NaN == << >>
Num(v) == <<v>>
IsNum(x) == x # << >>
Val(x) == x[1]

\* x < c for a number c: false when x is undefined or NaN
Lt(x, c) == IsNum(x) /\ Val(x) < c
\* x > c for a number c: false when x is undefined or NaN
Gt(x, c) == IsNum(x) /\ Val(x) > c

Abs(n) == IF n < 0 THEN -n ELSE n

\* A quotient a / b with b > 0 is kept as the pair of a and b; 0 is 0 / 1
Quotient(a, b) == [num |-> a, den |-> b]
Zero == Quotient(0, 1)

RECURSIVE MaxOfSeq(_)
MaxOfSeq(s) ==
    IF Len(s) = 1 THEN s[1]
    ELSE LET m == MaxOfSeq(Tail(s)) IN IF s[1] > m THEN s[1] ELSE m

\* Math.max(...values) of a non-empty array: NaN as soon as one argument is
\* undefined, else the largest argument
MathMax(values) ==
    IF \E i \in 1..Len(values) : ~IsNum(values[i]) THEN NaN
    ELSE Num(MaxOfSeq([i \in 1..Len(values) |-> Val(values[i])]))

\* speedData.map((p) => p.speedKmh)
SpeedsKmh(data) == [i \in 1..Len(data) |-> data[i].speedKmh]

(***************************************************************************)
(* percentile                                                              *)
(***************************************************************************)
RECURSIVE InsertSorted(_, _)
InsertSorted(v, s) ==
    IF s = << >> THEN <<v>>
    ELSE IF v <= s[1] THEN <<v>> \o s
    ELSE <<s[1]>> \o InsertSorted(v, Tail(s))

RECURSIVE SortNumbers(_)
SortNumbers(s) ==
    IF s = << >> THEN << >> ELSE InsertSorted(s[1], SortNumbers(Tail(s)))

RECURSIVE DefinedValues(_)
DefinedValues(arr) ==
    IF arr = << >> THEN << >>
    ELSE (IF IsNum(arr[1]) THEN <<Val(arr[1])>> ELSE << >>)
         \o DefinedValues(Tail(arr))

\* [...arr].sort((a, b) => a - b): a copy, numbers ascending; Array.prototype
\* .sort moves undefined elements to the end without consulting the comparator
SortedCopy(arr) ==
    LET nums == SortNumbers(DefinedValues(arr))
    IN [i \in 1..Len(arr) |-> IF i <= Len(nums) THEN Num(nums[i]) ELSE undefined]

\* Variant without the copy: arr.sort(...) reorders the caller's array
percentileArraysShared(arr) == [arr |-> SortedCopy(arr), sorted |-> SortedCopy(arr)]

\* The two arrays percentile holds when it returns: [...arr] is a new array
\* and sort reorders that one in place; arr itself is never written
percentileArrays(arr) == [arr |-> arr, sorted |-> SortedCopy(arr)]

\* Math.ceil((p / 100) * n) for integers p >= 0, n >= 0
\* Variant that rounds the rank down: Math.floor((p / 100) * n)
FloorPercent(p, n) == (p * n) \div 100

CeilPercent(p, n) == (p * n + 99) \div 100

\* Off-by-one variant: the rank is not reduced to a 0-based index
percentileRankNotReduced(arr, p) ==
    LET sorted == SortedCopy(arr)
        index == CeilPercent(p, Len(sorted))
        at == IF index > Len(sorted) - 1 THEN Len(sorted) - 1 ELSE index
    IN sorted[at + 1]

\* array[k] for a 0-based index k: undefined outside the array
ElementAt(array, k) ==
    IF k >= 0 /\ k < Len(array) THEN array[k + 1] ELSE undefined

\* Variant without Math.max(0, index)
percentileUnclamped(arr, p) ==
    LET sorted == SortedCopy(arr)
        index == CeilPercent(p, Len(sorted)) - 1
    IN ElementAt(sorted, index)

percentile(arr, p) ==
    LET sorted == SortedCopy(arr)
        index == CeilPercent(p, Len(sorted)) - 1
    IN ElementAt(sorted, IF index > 0 THEN index ELSE 0)

(***************************************************************************)
(* Speed classifiers                                                       *)
(***************************************************************************)
\* Variant that names the 25-80 km/h bucket after one vehicle
SpeedLabelByVehicle(speed) ==
    IF Lt(speed, 7) THEN "walking"
    ELSE IF Lt(speed, 25) THEN "cycling"
    ELSE IF Lt(speed, 80) THEN "car"
    ELSE IF Lt(speed, 200) THEN "train"
    ELSE "unknown"

\* The threshold cascade shared by baselineClassify and percentile95Classify
SpeedLabel(speed) ==
    IF Lt(speed, 7) THEN "walking"
    ELSE IF Lt(speed, 25) THEN "cycling"
    ELSE IF Lt(speed, 80) THEN "bus-or-car"
    ELSE IF Lt(speed, 200) THEN "train"
    ELSE "unknown"

\* Variant with inclusive upper limits (<= instead of <)
baselineClassifyInclusive(speedData) ==
    IF Len(speedData) = 0 THEN "unknown"
    ELSE LET maxSpeed == MathMax(SpeedsKmh(speedData))
         IN IF ~IsNum(maxSpeed) THEN "unknown"
            ELSE IF Val(maxSpeed) <= 7 THEN "walking"
            ELSE IF Val(maxSpeed) <= 25 THEN "cycling"
            ELSE IF Val(maxSpeed) <= 80 THEN "bus-or-car"
            ELSE IF Val(maxSpeed) <= 200 THEN "train"
            ELSE "unknown"

\* Variant that classifies the smallest speed (Math.min instead of Math.max)
baselineClassifyMinimum(speedData) ==
    IF Len(speedData) = 0 THEN "unknown"
    ELSE LET speeds == SpeedsKmh(speedData)
         IN IF \E i \in 1..Len(speeds) : ~IsNum(speeds[i]) THEN SpeedLabel(NaN)
            ELSE SpeedLabel(Num(-MaxOfSeq([i \in 1..Len(speeds) |-> -Val(speeds[i])])))

baselineClassify(speedData) ==
    IF Len(speedData) = 0 THEN "unknown"
    ELSE SpeedLabel(MathMax(SpeedsKmh(speedData)))

\* Variant that classifies the median
percentile95ClassifyMedian(speedData) ==
    IF Len(speedData) = 0 THEN "unknown"
    ELSE SpeedLabel(percentile(SpeedsKmh(speedData), 50))

percentile95Classify(speedData) ==
    IF Len(speedData) = 0 THEN "unknown"
    ELSE SpeedLabel(percentile(SpeedsKmh(speedData), 95))

(***************************************************************************)
(* Geospatial helper                                                       *)
(***************************************************************************)
\* R * pi / 180 for R = 6376377 m, per 0.001 degree, in millimetres
MmPerMilliDegree == 111289

\* getDistanceBetweenPoints for two points of equal longitude: dLng = 0, so
\* a = sin^2(dLat / 2), c = |dLat| in radians and the result is R * |dLat|
getDistanceBetweenPoints(point1, point2) ==
    MmPerMilliDegree * Abs(point2.latitude - point1.latitude)

(***************************************************************************)
(* findStops                                                               *)
(***************************************************************************)
null == << >>

\* Variant that compares speedKmh with the m/s threshold without converting
isBelowThresholdNoConversion(p, speedThreshold) ==
    IF IsNum(p.speed) THEN Val(p.speed) < speedThreshold
    ELSE IF IsNum(p.speedKmh) THEN Val(p.speedKmh) * 10 < speedThreshold
    ELSE 0 < speedThreshold

\* Variant that does not accept a negative speed as a stop
isBelowThresholdRejectNegative(p, speedThreshold) ==
    IF IsNum(p.speed) THEN 0 <= Val(p.speed) /\ Val(p.speed) < speedThreshold
    ELSE IF IsNum(p.speedKmh)
    THEN 0 <= Val(p.speedKmh) /\ Val(p.speedKmh) * 100 < 36 * speedThreshold
    ELSE 0 < speedThreshold

\* The speed selection of the loop body followed by speed < speedThreshold.
\* speed and speedThreshold count 0.1 m/s; speedKmh / 3.6 < speedThreshold
\* is speedKmh * 100 < 36 * speedThreshold in these units.
isBelowThreshold(p, speedThreshold) ==
    IF IsNum(p.speed) THEN Val(p.speed) < speedThreshold
    ELSE IF IsNum(p.speedKmh) THEN Val(p.speedKmh) * 100 < 36 * speedThreshold
    ELSE 0 < speedThreshold

\* Variant that measures the distance from the first sample of the run
StopRecordFromRunStart(pts, stopStart, endIndex, after) ==
    [startIndex |-> stopStart,
     endIndex |-> endIndex,
     duration |-> (pts[endIndex + 1].timestamp - pts[stopStart + 1].timestamp) \div 1000,
     distance |-> IF stopStart > 0
                  THEN getDistanceBetweenPoints(pts[stopStart + 1], pts[after + 1])
                  ELSE 0]

\* Variant that keeps the duration in the unit of the timestamps
StopRecordRawDelta(pts, stopStart, endIndex, after) ==
    [startIndex |-> stopStart,
     endIndex |-> endIndex,
     duration |-> pts[endIndex + 1].timestamp - pts[stopStart + 1].timestamp,
     distance |-> IF stopStart > 0
                  THEN getDistanceBetweenPoints(pts[stopStart], pts[after + 1])
                  ELSE 0]

\* The object pushed for a run stopStart..endIndex (0-based indices, as in the
\* source); `after` is the 0-based index of the sample the distance runs to
StopRecord(pts, stopStart, endIndex, after) ==
    [startIndex |-> stopStart,
     endIndex |-> endIndex,
     duration |-> (pts[endIndex + 1].timestamp - pts[stopStart + 1].timestamp) \div 1000,
     distance |-> IF stopStart > 0
                  THEN getDistanceBetweenPoints(pts[stopStart], pts[after + 1])
                  ELSE 0]

\* The for loop from index i on (0-based), then the closing of a trailing run
RECURSIVE findStopsFrom(_, _, _, _, _)
findStopsFrom(pts, speedThreshold, i, stopStart, acc) ==
    IF i >= Len(pts)
    THEN IF stopStart # null
         THEN Append(acc, StopRecord(pts, Val(stopStart), Len(pts) - 1, Len(pts) - 1))
         ELSE acc
    ELSE IF isBelowThreshold(pts[i + 1], speedThreshold)
    THEN findStopsFrom(pts, speedThreshold, i + 1,
                       IF stopStart = null THEN Num(i) ELSE stopStart, acc)
    ELSE IF stopStart # null
    THEN findStopsFrom(pts, speedThreshold, i + 1, null,
                       Append(acc, StopRecord(pts, Val(stopStart), i - 1, i)))
    ELSE findStopsFrom(pts, speedThreshold, i + 1, null, acc)

\* Variant that forgets to close a run that reaches the end of the trajectory
RECURSIVE findStopsOpenTail(_, _, _, _, _)
findStopsOpenTail(pts, speedThreshold, i, stopStart, acc) ==
    IF i >= Len(pts) THEN acc
    ELSE IF isBelowThreshold(pts[i + 1], speedThreshold)
    THEN findStopsOpenTail(pts, speedThreshold, i + 1,
                           IF stopStart = null THEN Num(i) ELSE stopStart, acc)
    ELSE IF stopStart # null
    THEN findStopsOpenTail(pts, speedThreshold, i + 1, null,
                           Append(acc, StopRecord(pts, Val(stopStart), i - 1, i)))
    ELSE findStopsOpenTail(pts, speedThreshold, i + 1, null, acc)

findStopsNoTrailingRun(pts, speedThreshold) ==
    findStopsOpenTail(pts, speedThreshold, 0, null, << >>)

findStops(pts, speedThreshold) ==
    findStopsFrom(pts, speedThreshold, 0, null, << >>)

\* speedThreshold = 0.5 m/s when the argument is omitted
DefaultSpeedThreshold == 5

(***************************************************************************)
(* stopPatternClassify                                                     *)
(***************************************************************************)
\* let totalDistance = 0; for (...) totalDistance += distance(i, i + 1)
RECURSIVE TotalDistanceFrom(_, _)
TotalDistanceFrom(gpsData, i) ==
    IF i >= Len(gpsData) THEN 0
    ELSE getDistanceBetweenPoints(gpsData[i], gpsData[i + 1])
         + TotalDistanceFrom(gpsData, i + 1)

TotalDistance(gpsData) == TotalDistanceFrom(gpsData, 1)

\* stopFrequency > 1 with stopFrequency = count / (totalDistance / 1000) and
\* count > 0: a zero totalDistance gives Infinity, which is > 1; otherwise
\* count / (mm / 1000000) > 1 is count * 1000000 > mm
StopFrequencyAboveOne(count, totalDistance) ==
    IF totalDistance = 0 THEN TRUE
    ELSE count * 1000000 > totalDistance

\* Variant whose band reaches up to 2000 m between stops
IsBusRangeWide(count, totalDistance) ==
    LET divisor == IF count > 1 THEN count ELSE 1
    IN /\ totalDistance > 300 * 1000 * divisor
       /\ totalDistance < 2000 * 1000 * divisor

\* avgDistanceBetweenStops > 300 && avgDistanceBetweenStops < 1000 with
\* avgDistanceBetweenStops = totalDistance / Math.max(1, count), in metres
IsBusRange(count, totalDistance) ==
    LET divisor == IF count > 1 THEN count ELSE 1
    IN /\ totalDistance > 300 * 1000 * divisor
       /\ totalDistance < 1000 * 1000 * divisor

\* Variant whose frequency rule needs more than 2 stops per km
StopPatternDecisionTwoPerKm(gpsData, found) ==
    IF Len(found) = 0 THEN "car"
    ELSE LET totalDistance == TotalDistance(gpsData)
         IN IF totalDistance = 0 \/ Len(found) * 1000000 > 2 * totalDistance THEN "bus"
            ELSE IF IsBusRange(Len(found), totalDistance) /\ Len(found) >= 2 THEN "bus"
            ELSE "car"

\* The decision after the range guard
StopPatternDecision(gpsData, found) ==
    IF Len(found) = 0 THEN "car"
    ELSE LET totalDistance == TotalDistance(gpsData)
         IN IF StopFrequencyAboveOne(Len(found), totalDistance) THEN "bus"
            ELSE IF IsBusRange(Len(found), totalDistance) /\ Len(found) >= 2 THEN "bus"
            ELSE "car"

\* Variant that takes the stops of the last findStops call instead of
\* computing them
stopPatternClassifyCachedStops(gpsData) ==
    IF Len(gpsData) = 0 THEN "null"
    ELSE LET found == stops
             maxSpeed == MathMax(SpeedsKmh(gpsData))
         IN IF Lt(maxSpeed, 25) \/ Gt(maxSpeed, 80) THEN "null"
            ELSE StopPatternDecision(gpsData, found)

stopPatternClassify(gpsData) ==
    IF Len(gpsData) = 0 THEN "null"
    ELSE LET found == findStops(gpsData, DefaultSpeedThreshold)
             maxSpeed == MathMax(SpeedsKmh(gpsData))
         IN IF Lt(maxSpeed, 25) \/ Gt(maxSpeed, 80) THEN "null"
            ELSE StopPatternDecision(gpsData, found)

(***************************************************************************)
(* calculateHeadingChanges and headingChangeClassify                       *)
(***************************************************************************)
\* Math.PI in heading units
HeadingUnitsPerPi == 90

\* Variant that leaves the difference as it is
NormalizeChangeNone(change) == change

\* while (change > Math.PI) change -= 2 * Math.PI;
\* while (change < -Math.PI) change += 2 * Math.PI;
RECURSIVE NormalizeChange(_)
NormalizeChange(change) ==
    IF change > HeadingUnitsPerPi THEN NormalizeChange(change - 2 * HeadingUnitsPerPi)
    ELSE IF change < -HeadingUnitsPerPi THEN NormalizeChange(change + 2 * HeadingUnitsPerPi)
    ELSE change

\* One loop iteration: undefined - x and x - undefined are NaN, the loops
\* leave NaN alone and Math.abs(NaN) is NaN
HeadingChange(previous, current) ==
    IF IsNum(previous.heading) /\ IsNum(current.heading)
    THEN Num(Abs(NormalizeChange(Val(current.heading) - Val(previous.heading))))
    ELSE NaN

calculateHeadingChanges(pts) ==
    [i \in 1..(IF Len(pts) > 1 THEN Len(pts) - 1 ELSE 0) |->
        HeadingChange(pts[i], pts[i + 1])]

\* (c * 180) / Math.PI
ToDegrees(c) == IF IsNum(c) THEN Num((Val(c) * 180) \div HeadingUnitsPerPi) ELSE NaN

HasNaN(s) == \E i \in 1..Len(s) : ~IsNum(s[i])

RECURSIVE SumNums(_)
SumNums(s) == IF s = << >> THEN 0 ELSE Val(s[1]) + SumNums(Tail(s))

\* sum of (n * x - total)^2 over the series: n^2 times the sum of the squared
\* deviations from the mean total / n
RECURSIVE ScaledSquaredDeviations(_, _, _)
ScaledSquaredDeviations(s, n, total) ==
    IF s = << >> THEN 0
    ELSE (n * Val(s[1]) - total) * (n * Val(s[1]) - total)
         + ScaledSquaredDeviations(Tail(s), n, total)

\* meanHeadingChange < c and meanHeadingChange > c, with meanHeadingChange =
\* reduce((a, b) => a + b) / length; every comparison with NaN is false
MeanBelow(degrees, c) == ~HasNaN(degrees) /\ SumNums(degrees) < c * Len(degrees)
MeanAbove(degrees, c) == ~HasNaN(degrees) /\ SumNums(degrees) > c * Len(degrees)

\* Variant of stdDev < c with the sample variance, which divides by
\* length - 1 and is NaN for a single change
StdDevBelowSample(degrees, c) ==
    LET n == Len(degrees)
    IN ~HasNaN(degrees)
       /\ n > 1
       /\ ScaledSquaredDeviations(degrees, n, SumNums(degrees)) < c * c * n * n * (n - 1)

\* stdDev < c and stdDev > c for c >= 0, with stdDev = Math.sqrt(variance) and
\* variance = reduce(sum + (change - mean)^2, 0) / length: both sides are
\* squared and multiplied by length^3
StdDevBelow(degrees, c) ==
    LET n == Len(degrees)
    IN ~HasNaN(degrees)
       /\ ScaledSquaredDeviations(degrees, n, SumNums(degrees)) < c * c * n * n * n
StdDevAbove(degrees, c) ==
    LET n == Len(degrees)
    IN ~HasNaN(degrees)
       /\ ScaledSquaredDeviations(degrees, n, SumNums(degrees)) > c * c * n * n * n

\* Variant that requires only one of the two fixed-route conditions
ClassifyDegreesEither(headingChangesDegrees) ==
    IF Len(headingChangesDegrees) = 0 THEN "TypeError"
    ELSE IF MeanBelow(headingChangesDegrees, 3) \/ StdDevBelow(headingChangesDegrees, 15)
    THEN "fixed-route"
    ELSE IF MeanAbove(headingChangesDegrees, 5) \/ StdDevAbove(headingChangesDegrees, 20)
    THEN "variable-route"
    ELSE "uncertain"

\* The statistics and the decision of headingChangeClassify on the series in
\* degrees.  reduce((a, b) => a + b) without an initial value throws a
\* TypeError on an empty array.
ClassifyDegrees(headingChangesDegrees) ==
    IF Len(headingChangesDegrees) = 0 THEN "TypeError"
    ELSE IF MeanBelow(headingChangesDegrees, 3) /\ StdDevBelow(headingChangesDegrees, 15)
    THEN "fixed-route"
    ELSE IF MeanAbove(headingChangesDegrees, 5) \/ StdDevAbove(headingChangesDegrees, 20)
    THEN "variable-route"
    ELSE "uncertain"

\* headingChanges.map((c) => (c * 180) / Math.PI)
DegreesOf(headingChanges) ==
    [i \in 1..Len(headingChanges) |-> ToDegrees(headingChanges[i])]

\* Variant without the two early returns
headingChangeClassifyUnguarded(gpsData) ==
    ClassifyDegrees(DegreesOf(calculateHeadingChanges(gpsData)))

headingChangeClassify(gpsData) ==
    IF Len(gpsData) < 2 THEN "null"
    ELSE LET headingChanges == calculateHeadingChanges(gpsData)
         IN IF Len(headingChanges) = 0 THEN "null"
            ELSE ClassifyDegrees(DegreesOf(headingChanges))

(***************************************************************************)
(* buildConfusionMatrix                                                    *)
(***************************************************************************)
modes == <<"walking", "cycling", "bus", "car", "train">>
Modes == {modes[i] : i \in 1..Len(modes)}

\* The matrix after the two nested initialisation loops
ZeroMatrix == [actual \in Modes |-> [predicted \in Modes |-> Num(0)]]

\* A string is truthy unless it is empty; "" stands for every falsy label
\* (missing field, null, empty string)
Truthy(lbl) == lbl # ""

\* matrix[row][key]++ on an existing row: an absent key reads as undefined,
\* undefined + 1 is NaN, and the NaN is stored under the new key
IncrementCell(row, key) ==
    [k \in (DOMAIN row) \cup {key} |->
        IF k = key
        THEN (IF key \in DOMAIN row /\ IsNum(row[key]) THEN Num(Val(row[key]) + 1) ELSE NaN)
        ELSE row[k]]

\* The second loop from pair i on.  matrix[pred.actual] is undefined for an
\* actual label that is no key of the matrix, and reading a property of
\* undefined throws a TypeError that ends the call.
RECURSIVE CountPairsFrom(_, _, _)
CountPairsFrom(preds, i, m) ==
    IF i > Len(preds) THEN [threw |-> FALSE, matrix |-> m]
    ELSE LET pred == preds[i]
         IN IF Truthy(pred.actual) /\ Truthy(pred.predicted)
            THEN IF pred.actual \in DOMAIN m
                 THEN CountPairsFrom(preds, i + 1,
                          [m EXCEPT ![pred.actual] = IncrementCell(@, pred.predicted)])
                 ELSE [threw |-> TRUE, matrix |-> m]
            ELSE CountPairsFrom(preds, i + 1, m)

\* Variant that records each actual/predicted pair transposed
RECURSIVE CountPairsTransposed(_, _, _)
CountPairsTransposed(preds, i, m) ==
    IF i > Len(preds) THEN [threw |-> FALSE, matrix |-> m]
    ELSE LET pred == preds[i]
         IN IF Truthy(pred.actual) /\ Truthy(pred.predicted)
            THEN IF pred.predicted \in DOMAIN m
                 THEN CountPairsTransposed(preds, i + 1,
                          [m EXCEPT ![pred.predicted] = IncrementCell(@, pred.actual)])
                 ELSE [threw |-> TRUE, matrix |-> m]
            ELSE CountPairsTransposed(preds, i + 1, m)

\* Variant that counts into the matrix of the previous call instead of a
\* new one
buildConfusionMatrixAccumulating(preds) == CountPairsFrom(preds, 1, matrix)

buildConfusionMatrixTransposed(preds) == CountPairsTransposed(preds, 1, ZeroMatrix)

buildConfusionMatrix(preds) == CountPairsFrom(preds, 1, ZeroMatrix)

(***************************************************************************)
(* calculateAccuracy, calculatePrecision and calculateRecall               *)
(***************************************************************************)
\* x || 0 for a cell x: undefined, NaN and 0 are falsy
OrZero(x) == IF IsNum(x) THEN Val(x) ELSE 0

\* object[key]: undefined when the object has no such key
Property(object, key) == IF key \in DOMAIN object THEN object[key] ELSE undefined

\* total += cell over the given keys of a row: NaN once a cell is NaN
RECURSIVE AddCells(_, _, _)
AddCells(row, keys, total) ==
    IF keys = {} THEN total
    ELSE LET k == CHOOSE x \in keys : TRUE
         IN AddCells(row, keys \ {k},
                     IF IsNum(total) /\ IsNum(row[k]) THEN Num(Val(total) + Val(row[k]))
                     ELSE NaN)

\* The outer loop of calculateAccuracy over the given rows
RECURSIVE AccuracyTotals(_, _, _, _)
AccuracyTotals(m, rows, correct, total) ==
    IF rows = {} THEN [correct |-> correct, total |-> total]
    ELSE LET actual == CHOOSE x \in rows : TRUE
         IN AccuracyTotals(m, rows \ {actual},
                           correct + OrZero(Property(m[actual], actual)),
                           AddCells(m[actual], DOMAIN m[actual], total))

\* Variant that divides by the number of rows instead of the total
calculateAccuracyPerRow(m) ==
    LET t == AccuracyTotals(m, DOMAIN m, 0, Num(0))
    IN IF Gt(t.total, 0) THEN Quotient(t.correct, Cardinality(DOMAIN m)) ELSE Zero

calculateAccuracy(m) ==
    LET t == AccuracyTotals(m, DOMAIN m, 0, Num(0))
    IN IF Gt(t.total, 0) THEN Quotient(t.correct, Val(t.total)) ELSE Zero

\* matrix[className]?.[className] || 0
TruePositives(m, cls) ==
    IF cls \in DOMAIN m THEN OrZero(Property(m[cls], cls)) ELSE 0

\* predicted += matrix[actual][className] || 0 over the given rows
RECURSIVE ColumnSum(_, _, _)
ColumnSum(m, rows, cls) ==
    IF rows = {} THEN 0
    ELSE LET actual == CHOOSE x \in rows : TRUE
         IN OrZero(Property(m[actual], cls)) + ColumnSum(m, rows \ {actual}, cls)

\* actual += matrix[className][predicted] || 0 over the given keys
RECURSIVE RowSum(_, _)
RowSum(row, keys) ==
    IF keys = {} THEN 0
    ELSE LET predicted == CHOOSE x \in keys : TRUE
         IN OrZero(row[predicted]) + RowSum(row, keys \ {predicted})

calculatePrecision(m, cls) ==
    LET truePositives == TruePositives(m, cls)
        predicted == ColumnSum(m, DOMAIN m, cls)
    IN IF predicted > 0 THEN Quotient(truePositives, predicted) ELSE Zero

\* Variant that divides by the column sum, as calculatePrecision does
calculateRecallByColumn(m, cls) ==
    LET truePositives == TruePositives(m, cls)
        actual == ColumnSum(m, DOMAIN m, cls)
    IN IF actual > 0 THEN Quotient(truePositives, actual) ELSE Zero

\* for (const predicted in matrix[className]) runs no iteration when
\* matrix[className] is undefined
calculateRecall(m, cls) ==
    LET truePositives == TruePositives(m, cls)
        actual == IF cls \in DOMAIN m THEN RowSum(m[cls], DOMAIN m[cls]) ELSE 0
    IN IF actual > 0 THEN Quotient(truePositives, actual) ELSE Zero

(***************************************************************************)
(* Inputs                                                                  *)
(***************************************************************************)
\* The i-th sample of a trajectory (1-based), one second after the previous
Sample(i, lat, speed, speedKmh, heading) ==
    [timestamp |-> (i - 1) * 1000, latitude |-> lat, speed |-> speed,
     speedKmh |-> speedKmh, heading |-> heading]

SeqsUpTo(S, n) == UNION {[1..k -> S] : k \in 0..n}

\* Trajectories that carry speedKmh only
SpeedAlphabet ==
    {undefined} \cup {Num(v) : v \in {-5, 0, 6, 7, 24, 25, 79, 80, 199, 200, 250}}

SpeedTrajectory(speeds) ==
    [i \in 1..Len(speeds) |-> Sample(i, 0, undefined, speeds[i], undefined)]

\* The four buckets below "unknown", each by its lowest and highest km/h
BucketRanges == {<<0, 6>>, <<7, 24>>, <<25, 79>>, <<80, 199>>}
Patterns == {"low", "high", "alternate"}

PatternSpeed(range, pattern, i) ==
    IF pattern = "low" \/ (pattern = "alternate" /\ i % 2 = 1)
    THEN Num(range[1]) ELSE Num(range[2])

SpeedTrajectories ==
    {SpeedTrajectory(s) : s \in SeqsUpTo(SpeedAlphabet, MaxLen)}
    \cup {SpeedTrajectory([i \in 1..n |-> PatternSpeed(r, pt, i)]) :
            n \in (MaxLen + 1)..MaxLong, r \in BucketRanges, pt \in Patterns}

\* Speeds written over one sample by InjectSpike
SpikeSpeeds == {50, 250}

\* Trajectories for stop detection: <<speed, speedKmh>> per sample, positions
\* a fixed stride apart along the meridian
StopAlphabet ==
    {<<undefined, undefined>>, <<undefined, Num(1)>>, <<undefined, Num(2)>>,
     <<undefined, Num(24)>>, <<Num(0), Num(30)>>, <<Num(5), Num(30)>>,
     <<Num(100), Num(80)>>, <<undefined, Num(81)>>}
Strides == {0, 3, 9}

StopTrajectories ==
    {[i \in 1..Len(s) |-> Sample(i, (i - 1) * d, s[i][1], s[i][2], undefined)] :
        s \in SeqsUpTo(StopAlphabet, MaxStopLen), d \in Strides}

\* speedThreshold arguments of findStops, in 0.1 m/s
Thresholds == {0, 5, 50}

\* Trajectories for the heading functions
HeadingAlphabet == {undefined} \cup {Num(h) : h \in {0, 1, 2, 3, 5, 45, 179}}
Turns == {0, 45, 90}

HeadingTrajectory(headings) ==
    [i \in 1..Len(headings) |-> Sample(i, i - 1, undefined, Num(50), headings[i])]

HeadingTrajectories ==
    {HeadingTrajectory(h) : h \in SeqsUpTo(HeadingAlphabet, MaxHeadLen)}
    \cup {HeadingTrajectory([i \in 1..n |-> IF i = n THEN Num(t) ELSE Num(0)]) :
            n \in (MaxHeadLen + 1)..MaxStraight, t \in Turns}

\* Trajectories with negative speeds: <<speed, speedKmh>> per sample
NegativeAlphabet ==
    {<<undefined, Num(-5)>>, <<undefined, Num(-1)>>, <<Num(-3), Num(-10)>>,
     <<undefined, Num(10)>>, <<Num(-3), Num(30)>>, <<Num(100), Num(-5)>>}

NegativeTrajectories ==
    {[i \in 1..Len(s) |-> Sample(i, i - 1, s[i][1], s[i][2], undefined)] :
        s \in SeqsUpTo(NegativeAlphabet, MaxNegativeLen)}

\* Trajectories whose speeds are not in ascending order: <<speedKmh, heading>>
\* per sample
FrameAlphabet ==
    {<<Num(30), Num(0)>>, <<Num(0), Num(45)>>, <<Num(90), Num(179)>>,
     <<undefined, undefined>>}

FrameTrajectories ==
    {[i \in 1..Len(s) |-> Sample(i, (i - 1) * 3, undefined, s[i][1], s[i][2])] :
        s \in SeqsUpTo(FrameAlphabet, MaxFrameLen)}

\* Trajectories of a session: <<speedKmh, heading>> per sample
SessionAlphabet == {<<Num(30), Num(0)>>, <<Num(10), Num(45)>>, <<Num(0), Num(179)>>}

SessionTrajectories ==
    {[i \in 1..Len(s) |-> Sample(i, (i - 1) * 3, undefined, s[i][1], s[i][2])] :
        s \in SeqsUpTo(SessionAlphabet, MaxSessionLen)}

\* The empty trajectory and the single-sample trajectories
DegenerateSamples ==
    {Sample(1, 0, sp, kmh, hd) :
        sp \in {undefined, Num(0), Num(100)},
        kmh \in {undefined} \cup {Num(v) : v \in {-5, 0, 7, 30, 80, 250}},
        hd \in {undefined, Num(0), Num(45)}}

DegenerateTrajectories == {<< >>} \cup {<<p>> : p \in DegenerateSamples}

\* Labels of the pairs: three of the modes, a label outside the vocabulary
\* and the falsy label
InputLabels == {"walking", "bus", "car", "bus-or-car", ""}
Pairs == [actual : InputLabels, predicted : InputLabels]
PredictionLists == SeqsUpTo(Pairs, MaxPairs)

\* Lists of pairs for a caller that builds one matrix after another
FreshLabels == {"walking", "bus"}
FreshLists == SeqsUpTo([actual : FreshLabels, predicted : FreshLabels], MaxFreshPairs)

\* Lists of pairs for the metric calls
MetricLabels == {"walking", "bus", "car", "bus-or-car"}
MetricLists == SeqsUpTo([actual : MetricLabels, predicted : MetricLabels], MaxMetricPairs)

(***************************************************************************)
(* engagement-analytics.js: the user breakdown table                       *)
(***************************************************************************)
\* The user ids in the order of localeCompare
UserIdOrder == <<"user_1", "user_2", "user_3">>
AllUserIds == {UserIdOrder[i] : i \in 1..Len(UserIdOrder)}

\* a.localeCompare(b): negative, zero or positive
localeCompare(a, b) ==
    (CHOOSE i \in 1..Len(UserIdOrder) : UserIdOrder[i] = a)
    - (CHOOSE i \in 1..Len(UserIdOrder) : UserIdOrder[i] = b)

\* new Date(week).getTime(): weeks are days since the epoch here
getTime(week) == week * (24 * 60 * 60 * 1000)

\* num.toLocaleString('en-US') for integers below 1000, which take no
\* separator; '0' for null and undefined
formatNumber(num) == IF ~IsNum(num) THEN "0" ELSE ToString(Val(num))

\* The comparator of sortTable.  Two numbers give valA - valB; a null count
\* is no number, and the fallback comparison then coerces it to 0
Compare(a, b, column, ascending) ==
    LET count(x) == IF IsNum(x) THEN Val(x) ELSE 0
        d == IF column = "week" THEN getTime(a.week) - getTime(b.week)
             ELSE IF column = "userId" THEN localeCompare(a.userId, b.userId)
             ELSE count(a.narrativesHeard) - count(b.narrativesHeard)
    IN IF ascending THEN d ELSE -d

\* Array.prototype.sort is stable: a row goes behind the rows it does not
\* precede
RECURSIVE InsertRow(_, _, _, _)
InsertRow(row, sorted, column, ascending) ==
    IF sorted = << >> THEN <<row>>
    ELSE LET last == sorted[Len(sorted)]
         IN IF Compare(row, last, column, ascending) < 0
            THEN Append(InsertRow(row, SubSeq(sorted, 1, Len(sorted) - 1),
                                  column, ascending), last)
            ELSE Append(sorted, row)

RECURSIVE SortRows(_, _, _)
SortRows(rows, column, ascending) ==
    IF rows = << >> THEN << >>
    ELSE InsertRow(rows[Len(rows)],
                   SortRows(SubSeq(rows, 1, Len(rows) - 1), column, ascending),
                   column, ascending)

\* The table body renderUserBreakdownTable builds from its rows
RenderRows(data) ==
    IF Len(data) = 0 THEN << <<"No data available">> >>
    ELSE [i \in 1..Len(data) |->
            <<data[i].userId, data[i].week, formatNumber(data[i].narrativesHeard)>>]

\* The ids of the tables of the document
TableIds == {"user-breakdown-table"}

\* currentTableData and the table body after renderUserBreakdownTable: a
\* table that is not in the document leaves both as they are
renderUserBreakdownTable(id, data) ==
    IF id \notin TableIds
    THEN [currentTableData |-> currentTableData, tbody |-> tbody]
    ELSE [currentTableData |-> data, tbody |-> RenderRows(data)]

\* currentSort after the toggle at the head of sortTable
ToggledSort(column) ==
    IF currentSort.column = column
    THEN [currentSort EXCEPT !.ascending = ~currentSort.ascending]
    ELSE [column |-> column, ascending |-> TRUE]

\* currentTableData.filter(row => userIds.includes(row.userId))
RECURSIVE FilterRows(_, _)
FilterRows(rows, ids) ==
    IF rows = << >> THEN << >>
    ELSE (IF rows[1].userId \in ids THEN <<rows[1]>> ELSE << >>)
         \o FilterRows(Tail(rows), ids)

\* The ids the functions are called with, one of them of no table
TableArguments == TableIds \cup {"no-such-table"}

\* The columns with a data-sort header
Columns == {"userId", "week", "narrativesHeard"}

\* Rows of the user breakdown: two users, two weeks, a missing count
RowAlphabet ==
    {[userId |-> "user_1", week |-> 1, narrativesHeard |-> Num(12)],
     [userId |-> "user_2", week |-> 2, narrativesHeard |-> Num(5)],
     [userId |-> "user_3", week |-> 1, narrativesHeard |-> null]}
TableData == SeqsUpTo(RowAlphabet, MaxRows)

\* The state of the module when it is loaded
TableIdle ==
    /\ currentTableData = << >>
    /\ currentSort = [column |-> "null", ascending |-> TRUE]
    /\ tbody = << >>
    /\ userData = << >>
    /\ userIds = {}
    /\ tableId = "none"

(***************************************************************************)
(* engagement-analytics.js: the debounced date range filter                *)
(***************************************************************************)
\* setTimeout(..., 300)
DebounceDelay == 300

\* The clock advances in thirds of the delay
TickMs == DebounceDelay \div 3

\* new Date(string) as days since the epoch; NaN for a string that is no date
Date(string) ==
    IF string = "2024-01-01" THEN Num(19723)
    ELSE IF string = "2024-01-31" THEN Num(19753)
    ELSE NaN

\* start > end: false as soon as one side is an invalid date
StartAfterEnd(startDate, endDate) ==
    LET start == Date(startDate)
        end == Date(endDate)
    IN IsNum(start) /\ IsNum(end) /\ Val(start) > Val(end)

DateArguments == {"2024-01-01", "2024-01-31", ""}
OnUpdateArguments == {"function", "undefined"}

\* The timeout is due
TimerDue == filterDebounceTimer # << >> /\ filterDebounceTimer[1].due <= now

\* The state of the module when it is loaded
FilterIdle ==
    /\ now = 0
    /\ filterDebounceTimer = << >>
    /\ isLoading = FALSE
    /\ urlParams = [startDate |-> "", endDate |-> ""]
    /\ alerted = FALSE
    /\ lastCallAt = << >>
    /\ lastValid = << >>
    /\ burstUpdates = 0
    /\ lastUpdate = << >>

(***************************************************************************)
(* State machine: a caller that holds a trajectory or a list of pairs and  *)
(* calls the exported functions on it                                      *)
(***************************************************************************)
\* The observer of a session notes the label of the first call of each
\* classifier and whether the classifier was called again; outside a session
\* nothing is noted
Classifiers ==
    {"baselineClassify", "percentile95Classify", "stopPatternClassify",
     "headingChangeClassify"}
NotObserved == [c \in Classifiers |-> [label |-> "not observed", again |-> FALSE]]
NotYetCalled == [c \in Classifiers |-> [label |-> "none", again |-> FALSE]]

Noted(name, lbl) ==
    IF firstLabel[name].label = "none"
    THEN [firstLabel EXCEPT ![name].label = lbl]
    ELSE IF firstLabel[name].label = "not observed" THEN firstLabel
    ELSE [firstLabel EXCEPT ![name].again = TRUE]

(***************************************************************************)
(* story-prompts.js: the stories tab                                       *)
(***************************************************************************)
\* The stories of the backend, in the order of refreshStoriesList, and the
\* title getStoryPrompts answers for each
Stories == <<"story_a", "story_b">>
StoryIds == {Stories[i] : i \in 1..Len(Stories)}
StoryTitle(storyId) == IF storyId = "story_a" THEN "Harbour walk" ELSE "Old town"

\* result.data of getStoryPrompts({ storyId })
getStoryPrompts(storyId) == [title |-> StoryTitle(storyId)]

\* The value of the selector: a story, or the empty placeholder option
SelectorValues == StoryIds \cup {""}

\* let currentStoryId = null; let functionsInstance = null; an untouched form
StoryIdle ==
    /\ currentStoryId = "null"
    /\ functionsInstance = "null"
    /\ listing = FALSE
    /\ pendingLoads = {}
    /\ loadCalls = 0
    /\ storyForm = [title |-> ""]
    /\ storyMessage = "none"
    /\ sent = << >>

InitResults ==
    /\ threshold = DefaultSpeedThreshold
    /\ called = "none"
    /\ label = "none"
    /\ stops = << >>
    /\ changes = << >>
    /\ matrix = ZeroMatrix
    /\ threw = FALSE
    /\ percent = 0
    /\ value = undefined
    /\ className = "none"
    /\ metric = Zero
    /\ kept = [list |-> << >>, matrix |-> ZeroMatrix]
    /\ TableIdle
    /\ FilterIdle
    /\ StoryIdle

InitWith(trajectories, lists) ==
    /\ points \in trajectories
    /\ original = points
    /\ spiked = 0
    /\ predictions \in lists
    /\ callerArray = SpeedsKmh(points)
    /\ firstLabel = NotObserved
    /\ InitResults

\* A classifier call ends: with a label, or with the exception that escaped
\* it, in which case nothing is returned
Returned(lbl) ==
    /\ threw' = (lbl = "TypeError")
    /\ label' = IF lbl = "TypeError" THEN "none" ELSE lbl
    /\ firstLabel' = Noted(called', label')
    /\ UNCHANGED <<page, callerArray, kept, points, original, spiked, threshold, predictions, stops,
                   changes, matrix, scalars>>

BaselineClassifyCall ==
    /\ called' = "baselineClassify"
    /\ Returned(baselineClassify(points))

Percentile95ClassifyCall ==
    /\ called' = "percentile95Classify"
    /\ Returned(percentile95Classify(points))

StopPatternClassifyCall ==
    /\ called' = "stopPatternClassify"
    /\ Returned(stopPatternClassify(points))

HeadingChangeClassifyCall ==
    /\ called' = "headingChangeClassify"
    /\ Returned(headingChangeClassify(points))

FindStopsCall ==
    \E t \in Thresholds :
        /\ threshold' = t
        /\ stops' = findStops(points, t)
        /\ called' = "findStops"
        /\ threw' = FALSE
        /\ UNCHANGED <<rest, points, original, spiked, predictions, label, changes, matrix,
                       scalars>>

CalculateHeadingChangesCall ==
    /\ changes' = calculateHeadingChanges(points)
    /\ called' = "calculateHeadingChanges"
    /\ threw' = FALSE
    /\ UNCHANGED <<rest, points, original, spiked, threshold, predictions, label,
                   stops, matrix, scalars>>

\* The caller overwrites the speed of one sample, once (the robustness test
\* does points[150].speedKmh = 50)
InjectSpike ==
    \E k \in 1..Len(points), v \in SpikeSpeeds :
        /\ spiked = 0
        /\ points' = [points EXCEPT ![k].speedKmh = Num(v)]
        /\ spiked' = k
        /\ called' = "none"
        /\ label' = "none"
        /\ callerArray' = SpeedsKmh(points')
        /\ UNCHANGED <<page, kept, firstLabel, original, threshold, predictions, stops, changes, matrix, threw,
                       scalars>>

\* A call that throws returns nothing: matrix keeps its previous value
BuildConfusionMatrixCall ==
    LET r == buildConfusionMatrix(predictions)
    IN /\ called' = "buildConfusionMatrix"
       /\ threw' = r.threw
       /\ matrix' = IF r.threw THEN matrix ELSE r.matrix
       /\ UNCHANGED <<rest, points, original, spiked, threshold, predictions, label,
                      stops, changes, scalars>>

\* buildConfusionMatrix on another list while the caller still holds the
\* list and the matrix of the call before
BuildConfusionMatrixAgainCall ==
    \E list \in FreshLists :
        LET r == buildConfusionMatrix(list)
        IN /\ list # predictions
           /\ ~r.threw
           /\ kept' = [list |-> predictions, matrix |-> matrix]
           /\ predictions' = list
           /\ matrix' = r.matrix
           /\ called' = "buildConfusionMatrix"
           /\ threw' = FALSE
           /\ UNCHANGED <<page, callerArray, firstLabel, points, original, spiked,
                          threshold, label, stops, changes, scalars>>

\* The p arguments of the percentile calls
Percents == {0, 1, 50, 95, 100}

\* percentile on the caller's array of the speeds of the trajectory
PercentileCall ==
    \E p \in Percents :
        /\ percent' = p
        /\ value' = percentile(callerArray, p)
        /\ callerArray' = percentileArrays(callerArray).arr
        /\ called' = "percentile"
        /\ threw' = FALSE
        /\ UNCHANGED <<page, kept, firstLabel, points, original, spiked, threshold,
                       predictions, label, stops, changes, matrix, className, metric>>

\* The metric calls take the matrix of the last buildConfusionMatrix call,
\* the all-zero matrix before it
CalculateAccuracyCall ==
    /\ metric' = calculateAccuracy(matrix)
    /\ called' = "calculateAccuracy"
    /\ threw' = FALSE
    /\ UNCHANGED <<rest, points, original, spiked, threshold, predictions, label,
                   stops, changes, matrix, percent, value, className>>

CalculatePrecisionCall ==
    \E c \in Modes :
        /\ className' = c
        /\ metric' = calculatePrecision(matrix, c)
        /\ called' = "calculatePrecision"
        /\ threw' = FALSE
        /\ UNCHANGED <<rest, points, original, spiked, threshold, predictions, label,
                       stops, changes, matrix, percent, value>>

CalculateRecallCall ==
    \E c \in Modes :
        /\ className' = c
        /\ metric' = calculateRecall(matrix, c)
        /\ called' = "calculateRecall"
        /\ threw' = FALSE
        /\ UNCHANGED <<rest, points, original, spiked, threshold, predictions, label,
                       stops, changes, matrix, percent, value>>

\* What the dashboard pages never touch: the state of the motion algorithms
\* apart from the name of the last call
algorithmState ==
    <<points, original, spiked, threshold, predictions, label, stops, changes,
      matrix, threw, scalars, callerArray, kept, firstLabel>>

\* The page renders the table with new data
RenderUserBreakdownTableCall ==
    \E id \in TableArguments, data \in TableData :
        LET r == renderUserBreakdownTable(id, data)
        IN /\ tableId' = id
           /\ currentTableData' = r.currentTableData
           /\ tbody' = r.tbody
           /\ userData' = IF id \in TableIds THEN data ELSE userData
           /\ called' = "renderUserBreakdownTable"
           /\ UNCHANGED <<currentSort, userIds, filterState, storyState,
                       algorithmState>>

\* A click on a column header: the toggle, the sort of a copy and the render
SortTableCall ==
    \E id \in TableArguments, column \in Columns :
        LET sort == ToggledSort(column)
            sortedData == SortRows(currentTableData, column, sort.ascending)
            r == renderUserBreakdownTable(id, sortedData)
        IN /\ tableId' = id
           /\ currentSort' = sort
           /\ currentTableData' = r.currentTableData
           /\ tbody' = r.tbody
           /\ called' = "sortTable"
           /\ UNCHANGED <<userData, userIds, filterState, storyState,
                       algorithmState>>

\* The user selection changes: all rows for an empty selection, else the
\* rows of the selected users
FilterTableByUserCall ==
    \E id \in TableArguments, ids \in SUBSET AllUserIds :
        LET r == renderUserBreakdownTable(id,
                     IF ids = {} THEN currentTableData
                     ELSE FilterRows(currentTableData, ids))
        IN /\ tableId' = id
           /\ currentTableData' = r.currentTableData
           /\ tbody' = r.tbody
           /\ userIds' = ids
           /\ called' = "filterTableByUser"
           /\ UNCHANGED <<currentSort, userData, filterState, storyState,
                       algorithmState>>

\* A call belongs to the burst of the call before it when it comes less than
\* the debounce delay after it
SameBurst == lastCallAt # << >> /\ now - lastCallAt[1] < DebounceDelay

\* applyDateRangeFilter: the alert and nothing else for a start after the
\* end; otherwise the pending timeout is cleared and a new one is set.  A
\* timeout that is due runs before the event that makes the call.
ApplyDateRangeFilterCall ==
    \E startDate \in DateArguments, endDate \in DateArguments,
       onUpdate \in OnUpdateArguments :
        /\ ~TimerDue
        /\ called' = "applyDateRangeFilter"
        /\ lastCallAt' = <<now>>
        /\ IF StartAfterEnd(startDate, endDate)
           THEN /\ alerted' = TRUE
                /\ filterDebounceTimer' = filterDebounceTimer
                /\ lastValid' = IF SameBurst THEN lastValid ELSE << >>
           ELSE /\ alerted' = FALSE
                /\ filterDebounceTimer' =
                      <<[due |-> now + DebounceDelay, startDate |-> startDate,
                         endDate |-> endDate, onUpdate |-> onUpdate]>>
                /\ lastValid' =
                      <<[at |-> now, startDate |-> startDate, endDate |-> endDate]>>
        /\ burstUpdates' = IF SameBurst THEN burstUpdates ELSE 0
        /\ UNCHANGED <<now, isLoading, urlParams, lastUpdate, tableState,
                       storyState,
                       algorithmState>>

\* The timeout fires: loading state, URL parameters, then the callback
FilterTimeout ==
    /\ TimerDue
    /\ LET timer == filterDebounceTimer[1]
       IN /\ isLoading' = TRUE
          /\ urlParams' = [startDate |-> timer.startDate, endDate |-> timer.endDate]
          /\ IF timer.onUpdate = "function"
             THEN /\ called' = "onUpdate"
                  /\ lastUpdate' = <<[at |-> now, startDate |-> timer.startDate,
                                      endDate |-> timer.endDate]>>
                  /\ burstUpdates' = burstUpdates + 1
             ELSE /\ called' = "timeout"
                  /\ UNCHANGED <<lastUpdate, burstUpdates>>
    /\ filterDebounceTimer' = << >>
    /\ UNCHANGED <<now, alerted, lastCallAt, lastValid, tableState, storyState,
                       algorithmState>>

\* Time passes, up to the next moment at which the timeout is due
Tick ==
    /\ now < MaxTicks * TickMs
    /\ ~TimerDue
    /\ now' = now + TickMs
    /\ UNCHANGED <<called, filterDebounceTimer, isLoading, urlParams, alerted,
                   lastCallAt, lastValid, burstUpdates, lastUpdate, tableState,
                   storyState,
                       algorithmState>>

\* loadStoryPrompts(storyId) up to its await: nothing without a functions
\* instance or a story id, else currentStoryId is set and the request leaves
loadStoryPrompts(storyId) ==
    IF functionsInstance = "null" \/ storyId = ""
    THEN UNCHANGED <<currentStoryId, pendingLoads, loadCalls>>
    ELSE /\ currentStoryId' = storyId
         /\ loadCalls' = loadCalls + 1
         /\ pendingLoads' =
               pendingLoads \cup {[call |-> loadCalls + 1, storyId |-> storyId]}

\* initializeStoriesTab up to its await of refreshStoriesList: the functions
\* instance is kept and the listeners are registered
InitializeStoriesTabCall ==
    /\ functionsInstance = "null"
    /\ functionsInstance' = "functions"
    /\ listing' = TRUE
    /\ called' = "initializeStoriesTab"
    /\ UNCHANGED <<currentStoryId, pendingLoads, loadCalls, storyForm,
                   storyMessage, sent, tableState, filterState, algorithmState>>

\* refreshStoriesList answers: the first story is loaded
StoriesListResolved ==
    /\ listing
    /\ loadCalls < MaxLoads
    /\ listing' = FALSE
    /\ loadStoryPrompts(Stories[1])
    /\ called' = "loadStoryPrompts"
    /\ UNCHANGED <<functionsInstance, storyForm, storyMessage, sent, tableState,
                   filterState, algorithmState>>

\* refreshStoriesList fails: the message and no load
StoriesListRejected ==
    /\ listing
    /\ listing' = FALSE
    /\ storyMessage' = "Failed to load stories"
    /\ called' = "initializeStoriesTab"
    /\ UNCHANGED <<currentStoryId, functionsInstance, pendingLoads, loadCalls,
                   storyForm, sent, tableState, filterState, algorithmState>>

\* The change listener of the story selector, registered by
\* initializeStoriesTab
SelectorChange ==
    \E storyId \in SelectorValues :
        /\ functionsInstance # "null"
        /\ loadCalls < MaxLoads
        /\ loadStoryPrompts(storyId)
        /\ called' = "loadStoryPrompts"
        /\ UNCHANGED <<functionsInstance, listing, storyForm, storyMessage, sent,
                       tableState, filterState, algorithmState>>

\* A getStoryPrompts request is answered: loadStoryPrompts resumes and fills
\* the form from result.data
GetStoryPromptsResolved ==
    \E request \in pendingLoads :
        /\ pendingLoads' = pendingLoads \ {request}
        /\ storyForm' = [title |-> getStoryPrompts(request.storyId).title]
        /\ called' = "getStoryPrompts"
        /\ UNCHANGED <<currentStoryId, functionsInstance, listing, loadCalls,
                       storyMessage, sent, tableState, filterState, algorithmState>>

\* A getStoryPrompts request fails: the catch block shows the message
GetStoryPromptsRejected ==
    \E request \in pendingLoads :
        /\ pendingLoads' = pendingLoads \ {request}
        /\ storyMessage' = "Failed to load story"
        /\ called' = "getStoryPrompts"
        /\ UNCHANGED <<currentStoryId, functionsInstance, listing, loadCalls,
                       storyForm, sent, tableState, filterState, algorithmState>>

\* The click listener of the save button: nothing without a current story,
\* else the form is sent under currentStoryId
SaveStoryPromptsCall ==
    /\ functionsInstance # "null"
    /\ sent' = IF currentStoryId = "null" THEN sent
               ELSE <<[storyId |-> currentStoryId, title |-> storyForm.title,
                       loading |-> pendingLoads # {}]>>
    /\ called' = "saveStoryPrompts"
    /\ UNCHANGED <<currentStoryId, functionsInstance, listing, pendingLoads,
                   loadCalls, storyForm, storyMessage, tableState, filterState,
                   algorithmState>>

\* Speed classifiers
InitSpeed == InitWith(SpeedTrajectories, {<< >>})
NextSpeed == BaselineClassifyCall \/ Percentile95ClassifyCall \/ InjectSpike
SpecSpeed == InitSpeed /\ [][NextSpeed]_vars

\* percentile alone
InitPercentile == InitWith(SpeedTrajectories, {<< >>})
NextPercentile == PercentileCall
SpecPercentile == InitPercentile /\ [][NextPercentile]_vars

\* Stop detection and the stop-pattern classifier
InitStops == InitWith(StopTrajectories, {<< >>})
NextStops == FindStopsCall \/ StopPatternClassifyCall
SpecStops == InitStops /\ [][NextStops]_vars

\* Heading changes and the heading classifier
InitHeading == InitWith(HeadingTrajectories, {<< >>})
NextHeading == CalculateHeadingChangesCall \/ HeadingChangeClassifyCall
SpecHeading == InitHeading /\ [][NextHeading]_vars

\* Every trajectory function on the empty and the single-sample trajectories
InitDegenerate == InitWith(DegenerateTrajectories, {<< >>})
NextDegenerate ==
    \/ BaselineClassifyCall
    \/ Percentile95ClassifyCall
    \/ StopPatternClassifyCall
    \/ HeadingChangeClassifyCall
    \/ FindStopsCall
    \/ CalculateHeadingChangesCall
SpecDegenerate == InitDegenerate /\ [][NextDegenerate]_vars

\* The confusion matrix
InitMatrix == InitWith({<< >>}, PredictionLists)
NextMatrix == BuildConfusionMatrixCall
SpecMatrix == InitMatrix /\ [][NextMatrix]_vars

\* The confusion matrix and its metrics
InitMetrics == InitWith({<< >>}, MetricLists)
NextMetrics ==
    \/ BuildConfusionMatrixCall
    \/ CalculateAccuracyCall
    \/ CalculatePrecisionCall
    \/ CalculateRecallCall
SpecMetrics == InitMetrics /\ [][NextMetrics]_vars

\* The speed classifiers and stop detection on negative speeds
InitNegative == InitWith(NegativeTrajectories, {<< >>})
NextNegative == BaselineClassifyCall \/ Percentile95ClassifyCall \/ FindStopsCall
SpecNegative == InitNegative /\ [][NextNegative]_vars

\* The four classifiers on every trajectory family
InitClassifiers ==
    InitWith(SpeedTrajectories \cup StopTrajectories \cup HeadingTrajectories
                \cup DegenerateTrajectories \cup NegativeTrajectories, {<< >>})
NextClassifiers ==
    \/ BaselineClassifyCall
    \/ Percentile95ClassifyCall
    \/ StopPatternClassifyCall
    \/ HeadingChangeClassifyCall
SpecClassifiers == InitClassifiers /\ [][NextClassifiers]_vars

\* percentile and the six trajectory functions in any order on one trajectory
InitFrame == InitWith(FrameTrajectories, {<< >>})
NextFrame ==
    \/ PercentileCall
    \/ BaselineClassifyCall
    \/ Percentile95ClassifyCall
    \/ StopPatternClassifyCall
    \/ HeadingChangeClassifyCall
    \/ FindStopsCall
    \/ CalculateHeadingChangesCall
SpecFrame == InitFrame /\ [][NextFrame]_vars

\* One matrix after another, with metric calls in between; the first matrix
\* is the one of the empty list
InitFresh == InitWith({<< >>}, {<< >>})
NextFresh ==
    \/ BuildConfusionMatrixCall
    \/ BuildConfusionMatrixAgainCall
    \/ CalculateAccuracyCall
    \/ CalculatePrecisionCall
    \/ CalculateRecallCall
SpecFresh == InitFresh /\ [][NextFresh]_vars

\* A session: the classifiers, the helpers and a metric called in any order
\* and any number of times on one trajectory
InitSession ==
    /\ points \in SessionTrajectories
    /\ original = points
    /\ spiked = 0
    /\ predictions = << >>
    /\ callerArray = SpeedsKmh(points)
    /\ firstLabel = NotYetCalled
    /\ InitResults
NextSession ==
    \/ BaselineClassifyCall
    \/ Percentile95ClassifyCall
    \/ StopPatternClassifyCall
    \/ HeadingChangeClassifyCall
    \/ FindStopsCall
    \/ CalculateHeadingChangesCall
    \/ CalculateAccuracyCall
SpecSession == InitSession /\ [][NextSession]_vars

\* The user breakdown table: render, sort and filter in any order
InitTable == InitWith({<< >>}, {<< >>})
NextTable ==
    \/ RenderUserBreakdownTableCall
    \/ SortTableCall
    \/ FilterTableByUserCall
SpecTable == InitTable /\ [][NextTable]_vars

\* The date range filter: calls, the timeout and the clock
InitFilter == InitWith({<< >>}, {<< >>})
NextFilter == ApplyDateRangeFilterCall \/ FilterTimeout \/ Tick
SpecFilter == InitFilter /\ [][NextFilter]_vars

\* The stories tab: selections, responses in any order, and saves
InitStory == InitWith({<< >>}, {<< >>})
NextStory ==
    \/ InitializeStoriesTabCall
    \/ StoriesListResolved
    \/ StoriesListRejected
    \/ SelectorChange
    \/ GetStoryPromptsResolved
    \/ GetStoryPromptsRejected
    \/ SaveStoryPromptsCall
SpecStory == InitStory /\ [][NextStory]_vars

(***************************************************************************)
(* Properties                                                              *)
(***************************************************************************)
AllSpeedsDefined(t) == \A i \in 1..Len(t) : IsNum(t[i].speedKmh)

\* max(speedKmh) of a non-empty trajectory whose samples all carry a speed
MaxSpeedKmh(t) ==
    CHOOSE m \in {Val(t[i].speedKmh) : i \in 1..Len(t)} :
        \A i \in 1..Len(t) : Val(t[i].speedKmh) <= m

\* The bucket table of the Baseline classifier
SpeedBucket(m) ==
    CASE m < 7 -> "walking"
      [] 7 <= m /\ m < 25 -> "cycling"
      [] 25 <= m /\ m < 80 -> "bus-or-car"
      [] 80 <= m /\ m < 200 -> "train"
      [] m >= 200 -> "unknown"

\* C1: on a non-empty trajectory baselineClassify returns the bucket of the
\* maximum speed: walking below 7, cycling from 7, bus-or-car from 25, train
\* from 80, unknown from 200 km/h; all-zero speeds are walking.
C1_BaselineBucketOfMax ==
    (called = "baselineClassify" /\ Len(points) > 0 /\ AllSpeedsDefined(points))
        => /\ label = SpeedBucket(MaxSpeedKmh(points))
           /\ (\A i \in 1..Len(points) : Val(points[i].speedKmh) = 0)
                  => label = "walking"

C1_Witness ==
    /\ called = "baselineClassify"
    /\ Len(points) > 1
    /\ AllSpeedsDefined(points)
    /\ MaxSpeedKmh(points) = 25
    /\ label = "bus-or-car"

\* All speeds of the trajectory fall in one bucket
InOneBucket(t) ==
    /\ Len(t) > 0
    /\ AllSpeedsDefined(t)
    /\ \A i, j \in 1..Len(t) :
          SpeedBucket(Val(t[i].speedKmh)) = SpeedBucket(Val(t[j].speedKmh))

\* One sample of a one-bucket trajectory was replaced by a speed above all
\* its speeds, and percentile95Classify was called on the result
SpikedAndClassified ==
    /\ called = "percentile95Classify"
    /\ spiked # 0
    /\ InOneBucket(original)
    /\ Val(points[spiked].speedKmh) > MaxSpeedKmh(original)

\* C2 as stated: a single high outlier in a one-bucket trajectory of any
\* length leaves the label of percentile95Classify unchanged.
C2_StableForAnyLength ==
    SpikedAndClassified => label = percentile95Classify(original)

\* C2: a single high outlier in a one-bucket trajectory of at least 20
\* samples leaves the label of percentile95Classify unchanged.
C2_StableFromTwentySamples ==
    (SpikedAndClassified /\ Len(points) >= 20)
        => label = percentile95Classify(original)

\* The outlier moved the Baseline label but not the Percentile95 label
C2_Witness ==
    /\ SpikedAndClassified
    /\ Len(points) >= 20
    /\ label = "walking"
    /\ baselineClassify(points) # baselineClassify(original)

\* C3: stopPatternClassify returns null whenever the maximum speed is below
\* 25 km/h or at least 80 km/h.
C3_NullOutsideAutomotiveRange ==
    (/\ called = "stopPatternClassify"
     /\ Len(points) > 0
     /\ AllSpeedsDefined(points)
     /\ (MaxSpeedKmh(points) < 25 \/ MaxSpeedKmh(points) >= 80))
        => label = "null"

\* Sample i (1-based) counts as stopped at the default threshold
StoppedAt(t, i) == isBelowThreshold(t[i], DefaultSpeedThreshold)

\* Number of detected stops: the samples that begin a run of stopped samples
StopCount(t) ==
    Cardinality({i \in 1..Len(t) :
        StoppedAt(t, i) /\ (i = 1 \/ ~StoppedAt(t, i - 1))})

\* Sum of the distances between consecutive samples, in millimetres
PathLength(t) ==
    LET RECURSIVE upTo(_)
        upTo(k) == IF k < 2 THEN 0
                   ELSE upTo(k - 1) + getDistanceBetweenPoints(t[k - 1], t[k])
    IN upTo(Len(t))

Max2(a, b) == IF a > b THEN a ELSE b

\* The decision of C4 on stopCount stops and totalDistance millimetres:
\* stopCount / (totalDistance / 1000 m) > 1 is totalDistance < stopCount km
C4_Decision(stopCount, totalDistance) ==
    IF stopCount = 0 THEN "car"
    ELSE IF totalDistance < stopCount * 1000000 THEN "bus"
    ELSE IF /\ totalDistance > 300000 * Max2(1, stopCount)
            /\ totalDistance < 1000000 * Max2(1, stopCount)
            /\ stopCount >= 2 THEN "bus"
    ELSE "car"

InAutomotiveRange(t) ==
    /\ Len(t) > 0
    /\ AllSpeedsDefined(t)
    /\ 25 <= MaxSpeedKmh(t)
    /\ MaxSpeedKmh(t) < 80

\* C4: in the automotive range stopPatternClassify returns car without
\* stops, else bus if there is more than one stop per km of path, else bus if
\* the path per stop is in the 300-1000 m band with at least 2 stops, else car.
C4_StopPatternDecision ==
    (called = "stopPatternClassify" /\ InAutomotiveRange(points))
        => label = C4_Decision(StopCount(points), PathLength(points))

\* Two stops more than a kilometre of path apart each: car
C4_Witness ==
    /\ called = "stopPatternClassify"
    /\ InAutomotiveRange(points)
    /\ StopCount(points) = 2
    /\ PathLength(points) > 2000000
    /\ label = "car"

\* Sample i (1-based) is strictly below the threshold of the last call
BelowAt(i) == isBelowThreshold(points[i], threshold)

\* The maximal runs of consecutive below-threshold samples, as pairs of
\* 0-based first and last index
MaximalRuns ==
    {<<a - 1, b - 1>> : a \in 1..Len(points), b \in 1..Len(points)} \cap
    {r \in (0..Len(points)) \X (0..Len(points)) :
        /\ r[1] <= r[2]
        /\ \A i \in (r[1] + 1)..(r[2] + 1) : BelowAt(i)
        /\ (r[1] = 0 \/ ~BelowAt(r[1]))
        /\ (r[2] = Len(points) - 1 \/ ~BelowAt(r[2] + 2))}

\* C7: findStops returns exactly the maximal runs of below-threshold samples,
\* in increasing index order and without overlap; every below-threshold
\* sample is in exactly one stop and no other sample is in any; an
\* all-below trajectory gives the one stop 0..N-1, an all-above or empty
\* trajectory gives none.
C7_StopsAreMaximalRuns ==
    called = "findStops" =>
        /\ {<<stops[k].startIndex, stops[k].endIndex>> : k \in 1..Len(stops)} = MaximalRuns
        /\ Len(stops) = Cardinality(MaximalRuns)
        /\ \A k \in 1..(Len(stops) - 1) : stops[k].endIndex < stops[k + 1].startIndex
        /\ \A i \in 1..Len(points) :
              Cardinality({k \in 1..Len(stops) :
                  stops[k].startIndex <= i - 1 /\ i - 1 <= stops[k].endIndex})
                = (IF BelowAt(i) THEN 1 ELSE 0)
        /\ (Len(points) > 0 /\ \A i \in 1..Len(points) : BelowAt(i))
              => (/\ Len(stops) = 1
                  /\ stops[1].startIndex = 0
                  /\ stops[1].endIndex = Len(points) - 1)
        /\ (\A i \in 1..Len(points) : ~BelowAt(i)) => stops = << >>

\* Two stops, the second one reaching the end of the trajectory
C7_Witness ==
    /\ called = "findStops"
    /\ Len(stops) = 2
    /\ stops[2].endIndex = Len(points) - 1
    /\ stops[1].startIndex = 0

AllHeadingsDefined(t) == \A i \in 1..Len(t) : IsNum(t[i].heading)

\* The shorter arc between two headings, in degrees (a heading unit is 2
\* degrees)
ArcDegrees(h1, h2) ==
    LET d == (2 * Abs(h2 - h1)) % 360
    IN IF d > 180 THEN 360 - d ELSE d

\* The heading-change series of a trajectory with headings, in degrees
ArcSeries(t) ==
    [i \in 1..(Len(t) - 1) |-> ArcDegrees(Val(t[i].heading), Val(t[i + 1].heading))]

SeqSum(s) ==
    LET RECURSIVE upTo(_)
        upTo(k) == IF k = 0 THEN 0 ELSE upTo(k - 1) + s[k]
    IN upTo(Len(s))

SeqSumSquares(s) ==
    LET RECURSIVE upTo(_)
        upTo(k) == IF k = 0 THEN 0 ELSE upTo(k - 1) + s[k] * s[k]
    IN upTo(Len(s))

\* mean of s compared with c: sum / n against c
MeanLess(s, c) == SeqSum(s) < c * Len(s)
MeanGreater(s, c) == SeqSum(s) > c * Len(s)

\* population standard deviation of s compared with c >= 0: the variance
\* E[x^2] - E[x]^2 against c^2, multiplied by n^2
SigmaLess(s, c) ==
    Len(s) * SeqSumSquares(s) - SeqSum(s) * SeqSum(s) < c * c * Len(s) * Len(s)
SigmaGreater(s, c) ==
    Len(s) * SeqSumSquares(s) - SeqSum(s) * SeqSum(s) > c * c * Len(s) * Len(s)

FixedZone(s) == MeanLess(s, 3) /\ SigmaLess(s, 15)
VariableZone(s) == MeanGreater(s, 5) \/ SigmaGreater(s, 20)
DeadZone(s) ==
    /\ ~MeanGreater(s, 5)
    /\ ~SigmaGreater(s, 20)
    /\ (~MeanLess(s, 3) \/ ~SigmaLess(s, 15))

C6_NullWithoutHeadings ==
    (/\ called = "headingChangeClassify"
     /\ Cardinality({i \in 1..Len(points) : IsNum(points[i].heading)}) < 2)
        => label = "null"

InVocabulary(pred) == pred.actual \in Modes /\ pred.predicted \in Modes

\* Number of input pairs with the given actual and predicted label
PairCount(actual, predicted) ==
    Cardinality({i \in 1..Len(predictions) :
        predictions[i].actual = actual /\ predictions[i].predicted = predicted})

\* Sum of all cells of the matrix, rows and columns in the order of modes
CellSum ==
    LET cell(k) == Val(matrix[modes[((k - 1) \div 5) + 1]][modes[((k - 1) % 5) + 1]])
        RECURSIVE upTo(_)
        upTo(k) == IF k = 0 THEN 0 ELSE upTo(k - 1) + cell(k)
    IN upTo(25)

\* C8: for pairs whose labels are all among the five modes,
\* buildConfusionMatrix returns a 5x5 matrix whose cell [a][p] is the number
\* of pairs (a, p); the cells sum to the number of pairs.
C8_CellsCountPairs ==
    (called = "buildConfusionMatrix"
     /\ \A i \in 1..Len(predictions) : InVocabulary(predictions[i]))
        => /\ ~threw
           /\ DOMAIN matrix = Modes
           /\ \A a \in Modes :
                 /\ DOMAIN matrix[a] = Modes
                 /\ \A q \in Modes : matrix[a][q] = Num(PairCount(a, q))
           /\ CellSum = Len(predictions)

\* The same pair twice and nothing else
C8_Witness ==
    /\ called = "buildConfusionMatrix"
    /\ Len(predictions) = 2
    /\ \A i \in 1..Len(predictions) : InVocabulary(predictions[i])
    /\ matrix["bus"]["car"] = Num(2)

\* C9: buildConfusionMatrix ignores every pair with a label outside the five
\* modes: it does not throw and returns the matrix of the list without
\* those pairs, all cells being integer counts.
C9_OutOfVocabularyIgnored ==
    called = "buildConfusionMatrix" =>
        /\ ~threw
        /\ matrix = buildConfusionMatrix(SelectSeq(predictions, InVocabulary)).matrix
        /\ \A a \in DOMAIN matrix : \A q \in DOMAIN matrix[a] : IsNum(matrix[a][q])

\* C10: on the empty trajectory the speed classifiers return unknown and the
\* other two null; on a single sample no function throws,
\* headingChangeClassify returns null, calculateHeadingChanges returns the
\* empty array and findStops an array.
C10_DegenerateTrajectories ==
    Len(points) <= 1 =>
        /\ ~threw
        /\ (Len(points) = 0 /\ called \in {"baselineClassify", "percentile95Classify"})
              => label = "unknown"
        /\ (Len(points) = 0 /\ called \in {"stopPatternClassify", "headingChangeClassify"})
              => label = "null"
        /\ called = "headingChangeClassify" => label = "null"
        /\ called = "calculateHeadingChanges" => changes = << >>
        /\ called = "findStops" =>
              /\ DOMAIN stops = 1..Len(stops)
              /\ \A k \in 1..Len(stops) : stops[k].startIndex = 0 /\ stops[k].endIndex = 0

\* headingChangeClassify on a single sample that carries a heading
C10_Witness ==
    /\ Len(points) = 1
    /\ IsNum(points[1].heading)
    /\ called = "headingChangeClassify"
    /\ label = "null"
    /\ ~threw

\* The k-th smallest speed of the trajectory (k from 1): the speed with
\* fewer than k speeds below it and at least k speeds not above it
KthSmallestSpeed(t, k) ==
    CHOOSE v \in {Val(t[i].speedKmh) : i \in 1..Len(t)} :
        /\ Cardinality({i \in 1..Len(t) : Val(t[i].speedKmh) < v}) < k
        /\ Cardinality({i \in 1..Len(t) : Val(t[i].speedKmh) <= v}) >= k

\* ceil(p / 100 * n): the least integer c with 100 * c >= p * n
CeilOfPercent(p, n) == CHOOSE c \in 0..n : 100 * c >= p * n /\ 100 * (c - 1) < p * n

\* C11: on a non-empty trajectory percentile95Classify returns the Baseline
\* bucket of the element at index ceil(0.95 * n) - 1 of the ascending speeds.
C11_Percentile95BucketOfRank ==
    (called = "percentile95Classify" /\ Len(points) > 0 /\ AllSpeedsDefined(points))
        => label = SpeedBucket(KthSmallestSpeed(points, CeilOfPercent(95, Len(points))))

\* 20 or more samples: the classified element is not the largest one
C11_Witness ==
    /\ called = "percentile95Classify"
    /\ Len(points) >= 20
    /\ AllSpeedsDefined(points)
    /\ label = "cycling"
    /\ SpeedBucket(MaxSpeedKmh(points)) = "unknown"

MinSpeedKmh(t) ==
    CHOOSE m \in {Val(t[i].speedKmh) : i \in 1..Len(t)} :
        \A i \in 1..Len(t) : Val(t[i].speedKmh) >= m

\* An index clamped to [0, n - 1]
Clamped(index, n) == IF index < 0 THEN 0 ELSE IF index > n - 1 THEN n - 1 ELSE index

CellsAreCounts ==
    \A a \in DOMAIN matrix : DOMAIN matrix[a] = Modes /\ \A q \in Modes : IsNum(matrix[a][q])

DiagonalSum ==
    LET RECURSIVE upTo(_)
        upTo(k) == IF k = 0 THEN 0 ELSE upTo(k - 1) + Val(matrix[modes[k]][modes[k]])
    IN upTo(Len(modes))

\* The fraction returned equals a / b (b > 0)
MetricIs(a, b) == metric.num * b = a * metric.den

MetricInUnitInterval == 0 <= metric.num /\ metric.num <= metric.den /\ metric.den > 0

\* C13: calculateAccuracy returns the diagonal sum over the sum of all
\* cells, a value in [0, 1], and 0 when every cell is 0.
C13_AccuracyIsDiagonalShare ==
    (called = "calculateAccuracy" /\ CellsAreCounts)
        => /\ CellSum > 0 => MetricIs(DiagonalSum, CellSum)
           /\ CellSum = 0 => metric = Zero
           /\ MetricInUnitInterval
           /\ predictions = << >> => metric = Zero

\* One of two pairs on the diagonal: 1 / 2
C13_Witness ==
    /\ called = "calculateAccuracy"
    /\ CellsAreCounts
    /\ CellSum = 2
    /\ DiagonalSum = 1
    /\ MetricIs(1, 2)

\* Sum of column cls over all actual labels, and of row cls over all
\* predicted labels
ColumnTotal(cls) ==
    LET RECURSIVE upTo(_)
        upTo(k) == IF k = 0 THEN 0 ELSE upTo(k - 1) + Val(matrix[modes[k]][cls])
    IN upTo(Len(modes))

RowTotal(cls) ==
    LET RECURSIVE upTo(_)
        upTo(k) == IF k = 0 THEN 0 ELSE upTo(k - 1) + Val(matrix[cls][modes[k]])
    IN upTo(Len(modes))

\* C14: on a matrix of counts calculatePrecision(X) is matrix[X][X] over the
\* sum of column X and calculateRecall(X) is matrix[X][X] over the sum of
\* row X; each is in [0, 1] and is 0 when its denominator is 0.
C14_PrecisionAndRecall ==
    /\ (called = "calculatePrecision" /\ CellsAreCounts)
          => /\ ~threw
             /\ ColumnTotal(className) > 0
                   => MetricIs(Val(matrix[className][className]), ColumnTotal(className))
             /\ ColumnTotal(className) = 0 => metric = Zero
             /\ MetricInUnitInterval
    /\ (called = "calculateRecall" /\ CellsAreCounts)
          => /\ ~threw
             /\ RowTotal(className) > 0
                   => MetricIs(Val(matrix[className][className]), RowTotal(className))
             /\ RowTotal(className) = 0 => metric = Zero
             /\ MetricInUnitInterval

\* A class with recall 1 / 2 whose precision would be 1 / 1
C14_Witness ==
    /\ called = "calculateRecall"
    /\ CellsAreCounts
    /\ RowTotal(className) = 2
    /\ ColumnTotal(className) = 1
    /\ MetricIs(1, 2)

\* The shorter of the two arcs between two headings of [0, 2 * pi)
ShorterArc(h1, h2) ==
    LET d == Abs(h2 - h1)
    IN IF d <= 2 * HeadingUnitsPerPi - d THEN d ELSE 2 * HeadingUnitsPerPi - d

InFullTurn(h) == IsNum(h) /\ 0 <= Val(h) /\ Val(h) < 2 * HeadingUnitsPerPi

\* C15: calculateHeadingChanges returns max(0, n - 1) elements for n
\* samples; for headings in [0, 2 * pi) element i is the shorter arc between
\* heading i and heading i + 1, a value in [0, pi].
C15_HeadingChangesShorterArc ==
    called = "calculateHeadingChanges" =>
        /\ DOMAIN changes = 1..(IF Len(points) > 0 THEN Len(points) - 1 ELSE 0)
        /\ \A i \in DOMAIN changes :
              (InFullTurn(points[i].heading) /\ InFullTurn(points[i + 1].heading))
                 => /\ changes[i] = Num(ShorterArc(Val(points[i].heading),
                                                   Val(points[i + 1].heading)))
                    /\ 0 <= Val(changes[i])
                    /\ Val(changes[i]) <= HeadingUnitsPerPi

\* Two headings on either side of the wrap: a difference of more than pi
\* whose shorter arc is one unit
C15_Witness ==
    /\ called = "calculateHeadingChanges"
    /\ Len(points) = 3
    /\ points[1].heading = Num(179)
    /\ points[2].heading = Num(0)
    /\ points[3].heading = Num(45)
    /\ changes = <<Num(1), Num(45)>>

\* Millimetres between the samples at 0-based indices i and j
MmBetween(i, j) ==
    MmPerMilliDegree * Abs(points[j + 1].latitude - points[i + 1].latitude)

\* C16: the distance of a stop is 0 when the run starts at index 0;
\* otherwise it is the distance from the sample before the run to the sample
\* after the run, and to the final sample for a run that reaches the end.
C16_StopDistance ==
    called = "findStops" =>
        \A k \in 1..Len(stops) :
            LET s == stops[k]
            IN stops[k].distance =
                 (IF s.startIndex = 0 THEN 0
                  ELSE IF s.endIndex = Len(points) - 1
                  THEN MmBetween(s.startIndex - 1, Len(points) - 1)
                  ELSE MmBetween(s.startIndex - 1, s.endIndex + 1))

\* A one-sample stop in the middle of a moving trajectory: the distance
\* spans the two neighbours
C16_Witness ==
    /\ called = "findStops"
    /\ Len(points) = 3
    /\ points[3].latitude = 18
    /\ Len(stops) = 1
    /\ stops[1].startIndex = 1
    /\ stops[1].endIndex = 1
    /\ stops[1].distance = 18 * MmPerMilliDegree

\* timestamp[endIndex] - timestamp[startIndex] of a stop
TimestampDelta(s) ==
    points[s.endIndex + 1].timestamp - points[s.startIndex + 1].timestamp

\* C17 as stated: the duration of a stop equals the timestamp delta between
\* the first and the last sample of the run, in the unit of the timestamps.
C17_DurationIsTimestampDelta ==
    called = "findStops" =>
        \A k \in 1..Len(stops) : stops[k].duration = TimestampDelta(stops[k])

\* C17: the duration of a stop is the timestamp delta between the first and
\* the last sample of the run divided by 1000 (seconds for timestamps in
\* milliseconds).
C17_DurationIsDeltaOverThousand ==
    called = "findStops" =>
        \A k \in 1..Len(stops) : stops[k].duration * 1000 = TimestampDelta(stops[k])

\* A stop of three samples one second apart: 2000 ms, duration 2
C17_Witness ==
    /\ called = "findStops"
    /\ Len(stops) = 1
    /\ stops[1].startIndex = 0
    /\ stops[1].endIndex = 2
    /\ TimestampDelta(stops[1]) = 2000
    /\ stops[1].duration = 2

\* The sample at 1-based position i lies in one of the stops returned
InStop(i) ==
    \E k \in 1..Len(stops) : stops[k].startIndex <= i - 1 /\ i - 1 <= stops[k].endIndex

\* C18: a sample with neither speed nor speedKmh counts as speed 0, stopped
\* for every positive threshold; a sample without speed but with speedKmh is
\* stopped exactly when speedKmh / 3.6 is below the threshold (in 0.1 m/s
\* units: speedKmh * 100 < 36 * threshold).
C18_MissingSpeedIsZero ==
    called = "findStops" =>
        \A i \in 1..Len(points) :
            /\ (~IsNum(points[i].speed) /\ ~IsNum(points[i].speedKmh))
                  => (InStop(i) <=> threshold > 0)
            /\ (~IsNum(points[i].speed) /\ IsNum(points[i].speedKmh))
                  => (InStop(i) <=> Val(points[i].speedKmh) * 100 < 36 * threshold)

\* At 0.5 m/s (1.8 km/h): a sample without any speed and one at 1 km/h are
\* stopped, one at 2 km/h is not
C18_Witness ==
    /\ called = "findStops"
    /\ threshold = DefaultSpeedThreshold
    /\ Len(points) = 3
    /\ points[1].speed = undefined /\ points[1].speedKmh = undefined
    /\ points[2].speed = undefined /\ points[2].speedKmh = Num(1)
    /\ points[3].speed = undefined /\ points[3].speedKmh = Num(2)
    /\ InStop(1) /\ InStop(2) /\ ~InStop(3)

\* The speed findStops reads from the sample at position i is negative
StopSpeedNegative(i) ==
    IF IsNum(points[i].speed) THEN Val(points[i].speed) < 0
    ELSE IsNum(points[i].speedKmh) /\ Val(points[i].speedKmh) < 0

\* C19: negative speeds make no function throw and are neither rejected nor
\* clamped: baselineClassify buckets the raw maximum and percentile95Classify
\* the raw 95th percentile, so an all-negative trajectory is walking, and
\* findStops puts every negative-speed sample in a stop.
C19_NegativeSpeedsPassThrough ==
    /\ ~threw
    /\ (called = "baselineClassify" /\ Len(points) > 0 /\ AllSpeedsDefined(points))
          => /\ label = SpeedBucket(MaxSpeedKmh(points))
             /\ MaxSpeedKmh(points) < 0 => label = "walking"
    /\ (called = "percentile95Classify" /\ Len(points) > 0 /\ AllSpeedsDefined(points))
          => /\ label = SpeedBucket(KthSmallestSpeed(points, CeilOfPercent(95, Len(points))))
             /\ MaxSpeedKmh(points) < 0 => label = "walking"
    /\ called = "findStops"
          => \A i \in 1..Len(points) : StopSpeedNegative(i) => InStop(i)

\* -5 km/h then 10 km/h: cycling by the classifiers, and the first sample
\* alone is a stop at 0.5 m/s
C19_Witness ==
    /\ called = "findStops"
    /\ threshold = DefaultSpeedThreshold
    /\ Len(points) = 2
    /\ points[1].speed = undefined /\ points[1].speedKmh = Num(-5)
    /\ points[2].speed = undefined /\ points[2].speedKmh = Num(10)
    /\ label = "cycling"
    /\ Len(stops) = 1
    /\ stops[1].startIndex = 0
    /\ stops[1].endIndex = 0

SpeedVocabulary == {"walking", "cycling", "bus-or-car", "train", "unknown"}
StopPatternVocabulary == {"bus", "car", "null"}
HeadingVocabulary == {"fixed-route", "variable-route", "uncertain", "null"}

\* C20: baselineClassify and percentile95Classify return one of walking,
\* cycling, bus-or-car, train, unknown; stopPatternClassify one of bus, car,
\* null; headingChangeClassify one of fixed-route, variable-route, uncertain,
\* null; each call returns.
C20_LabelVocabulary ==
    /\ called \in {"baselineClassify", "percentile95Classify"}
          => ~threw /\ label \in SpeedVocabulary
    /\ called = "stopPatternClassify" => ~threw /\ label \in StopPatternVocabulary
    /\ called = "headingChangeClassify" => ~threw /\ label \in HeadingVocabulary

\* A baselineClassify call that answers for the 25-80 km/h bucket
C20_Witness ==
    /\ called = "baselineClassify"
    /\ Len(points) > 1
    /\ AllSpeedsDefined(points)
    /\ MaxSpeedKmh(points) = 30
    /\ label = "bus-or-car"

\* C21: percentile leaves the caller's array as it was, and none of the
\* trajectory functions modifies the trajectory: after any sequence of calls
\* both hold the elements they started with, in the same order.
C21_ArgumentsUnchanged ==
    /\ callerArray = SpeedsKmh(original)
    /\ points = original

\* percentile returned the smallest speed of an array that starts with its
\* largest one, after a classifier call
C21_Witness ==
    /\ called = "percentile"
    /\ percent = 0
    /\ label = "bus-or-car"
    /\ Len(callerArray) = 2
    /\ callerArray[1] = Num(30)
    /\ callerArray[2] = Num(0)
    /\ value = Num(0)

\* The matrix of counts of a list of pairs over the five modes
CountsOf(list) ==
    [a \in Modes |-> [q \in Modes |->
        Num(Cardinality({i \in 1..Len(list) :
            list[i].actual = a /\ list[i].predicted = q}))]]

\* C22: the metric calls leave the matrix unchanged, buildConfusionMatrix
\* leaves its list unchanged and returns a fresh matrix: after any sequence
\* of build and metric calls the matrix of the current list and the matrix
\* kept from the list before are each the counts of their own list.
C22_MatricesAreFresh ==
    /\ matrix = CountsOf(predictions)
    /\ kept.matrix = CountsOf(kept.list)
    /\ \A i \in 1..Len(predictions) :
          predictions[i].actual \in FreshLabels /\ predictions[i].predicted \in FreshLabels

\* Two different non-empty lists built one after the other, then a metric
\* call: each matrix still counts its own list
C22_Witness ==
    /\ called = "calculateRecall"
    /\ kept.list = <<[actual |-> "bus", predicted |-> "walking"]>>
    /\ predictions = <<[actual |-> "walking", predicted |-> "walking"]>>
    /\ kept.matrix["bus"]["walking"] = Num(1)
    /\ matrix["walking"]["walking"] = Num(1)
    /\ matrix["bus"]["walking"] = Num(0)

C24_StraightIsFixedRoute ==
    (/\ called = "headingChangeClassify"
     /\ Len(points) >= 2
     /\ AllHeadingsDefined(points)
     /\ \A i \in 1..Len(points) : points[i].heading = points[1].heading)
        => label = "fixed-route"

\* Two samples with the same heading: a single change of 0
C24_Witness ==
    /\ called = "headingChangeClassify"
    /\ Len(points) = 2
    /\ points[1].heading = Num(45)
    /\ points[2].heading = Num(45)
    /\ label = "fixed-route"

\* The number of times a rendered row occurs in a table body
Occurrences(body, cells) == Cardinality({i \in 1..Len(body) : body[i] = cells})

\* C25: after renderUserBreakdownTable(tableId, D) and any sequence of filter
\* and sort calls, filterTableByUser(tableId, []) renders every row of D.
C25_EmptySelectionShowsAll ==
    (called = "filterTableByUser" /\ tableId \in TableIds /\ userIds = {})
        => \A i \in 1..Len(RenderRows(userData)) :
              Occurrences(tbody, RenderRows(userData)[i])
                = Occurrences(RenderRows(userData), RenderRows(userData)[i])

\* C26: in a burst of applyDateRangeFilter calls, each less than 300 ms
\* after the one before, onUpdate is invoked at most once, 300 ms after the
\* last call that passed validation and with the dates of that call; no
\* update is pending or made for a start date after the end date.
C26_DebouncedOncePerBurst ==
    /\ burstUpdates <= 1
    /\ called = "onUpdate"
          => /\ lastValid # << >>
             /\ lastUpdate[1].at = lastValid[1].at + DebounceDelay
             /\ lastUpdate[1].startDate = lastValid[1].startDate
             /\ lastUpdate[1].endDate = lastValid[1].endDate
    /\ filterDebounceTimer # << >>
          => ~StartAfterEnd(filterDebounceTimer[1].startDate,
                            filterDebounceTimer[1].endDate)
    /\ lastUpdate # << >>
          => ~StartAfterEnd(lastUpdate[1].startDate, lastUpdate[1].endDate)

\* The position of a speed label in the order
\* walking < cycling < bus-or-car < train < unknown
LabelRank(lbl) ==
    CASE lbl = "walking" -> 1
      [] lbl = "cycling" -> 2
      [] lbl = "bus-or-car" -> 3
      [] lbl = "train" -> 4
      [] lbl = "unknown" -> 5

\* C27: on every non-empty trajectory the label of percentile95Classify is
\* at most the label of baselineClassify in the order walking < cycling <
\* bus-or-car < train < unknown.
C27_Percentile95AtMostBaseline ==
    /\ (called = "percentile95Classify" /\ Len(points) > 0)
          => LabelRank(label) <= LabelRank(baselineClassify(points))
    /\ (called = "baselineClassify" /\ Len(points) > 0)
          => LabelRank(percentile95Classify(points)) <= LabelRank(label)

\* Percentile95 strictly below Baseline: one sample of a long cycling
\* trajectory is at bus-or-car speed
C27_Witness ==
    /\ called = "percentile95Classify"
    /\ spiked # 0
    /\ label = "cycling"
    /\ baselineClassify(points) = "bus-or-car"

\* C28: on every trajectory of 1 to 19 samples percentile95Classify and
\* baselineClassify return the same label; from 20 samples on the index
\* ceil(0.95 * n) - 1 is below the index n - 1 of the largest speed.
C28_SameLabelBelowTwentySamples ==
    /\ (called = "percentile95Classify" /\ Len(points) \in 1..19)
          => label = baselineClassify(points)
    /\ (called = "baselineClassify" /\ Len(points) \in 1..19)
          => label = percentile95Classify(points)
    /\ (called = "percentile95Classify" /\ Len(points) >= 20)
          => CeilPercent(95, Len(points)) - 1 < Len(points) - 1

\* 19 samples, the largest of them an outlier that both classifiers follow
C28_Witness ==
    /\ called = "percentile95Classify"
    /\ Len(points) = 19
    /\ spiked # 0
    /\ label = "unknown"
    /\ baselineClassify(points) = "unknown"
    /\ baselineClassify(original) = "walking"

\* The range guard of stopPatternClassify lets the trajectory through
PassesRangeGuard(t) ==
    /\ Len(t) > 0
    /\ ~Lt(MathMax(SpeedsKmh(t)), 25)
    /\ ~Gt(MathMax(SpeedsKmh(t)), 80)

\* stopPatternClassify without the spacing-band rule: past the guard, bus
\* exactly when there is a stop and the path is shorter than 1000 m per stop
WithoutBandRule(t) ==
    IF ~PassesRangeGuard(t) THEN "null"
    ELSE IF StopCount(t) >= 1 /\ PathLength(t) < 1000000 * StopCount(t) THEN "bus"
    ELSE "car"

\* C29: stopPatternClassify returns what it would return without the rule
\* "average inter-stop distance in 300-1000 m and at least 2 stops": past the
\* range guard and with at least one stop, bus exactly when the total path
\* length is below 1000 m times the stop count, and car otherwise.
C29_BandRuleNeverDecides ==
    called = "stopPatternClassify"
        => /\ label = WithoutBandRule(points)
           /\ (PassesRangeGuard(points) /\ StopCount(points) >= 1)
                 => /\ label \in {"bus", "car"}
                    /\ label = "bus" <=> PathLength(points) < 1000000 * StopCount(points)

\* Two stops with the path per stop inside the band: the frequency rule has
\* already answered bus
C29_Witness ==
    /\ called = "stopPatternClassify"
    /\ PassesRangeGuard(points)
    /\ StopCount(points) = 2
    /\ PathLength(points) > 300000 * 2
    /\ PathLength(points) < 1000000 * 2
    /\ label = "bus"

\* C30: once no loadStoryPrompts call is pending, the story form holds the
\* data of the story identified by currentStoryId, and saveStoryPrompts then
\* sends the values of a story under the id of that story.
C30_FormBelongsToCurrentStory ==
    /\ (pendingLoads = {} /\ currentStoryId # "null")
          => storyForm.title = getStoryPrompts(currentStoryId).title
    /\ (sent # << >> /\ ~sent[1].loading)
          => sent[1].title = getStoryPrompts(sent[1].storyId).title

====
